---- MODULE Spec2Model ----
(***************************************************************************)
(* HealthGuard agent routing and orchestration.                            *)
(*                                                                         *)
(*   RouterAgent        backend/app/agents/router_agent.py                 *)
(*   BaseAgent          backend/app/agents/base_agent.py                   *)
(*   Diet/Fitness/MedicalAgent  backend/app/agents/*_agent.py              *)
(*   AgentOrchestrator  backend/app/agents/orchestrator.py                 *)
(*                                                                         *)
(* Text is a sequence of one-character strings; confidences are in         *)
(* hundredths (0.8 is 80).                                                 *)
(***************************************************************************)
EXTENDS Integers, Sequences, FiniteSets, TLC

VARIABLES
  user_message,      \* the message text of the request
  mode,              \* "stream": process_message_stream, "call": process_message
  llm_provider,      \* "none", "stream" (has chat_completion_stream) or "nostream"
  image_base64_list, \* additional_context["image_base64_list"]: "none", "ok", "malformed"
  pc,                \* position of the running coroutine
  user_context,      \* memory_manager.get_user_context: "unfetched", "fetched", "raised"
  fault,             \* the first exception raised inside the request, and where
  routing,           \* outcome of RouterAgent.process_request
  agent,             \* the specialist picked by process_message_stream
  events,            \* the events process_message_stream has yielded so far
  fragments,         \* the fragments the specialist's stream has yielded so far
  backend,           \* the Model Backend's token stream: tokens sent, and its status
  result,            \* outcome of process_message
  calls,             \* the Model Backend calls made so far
  llm_response,      \* the Model Backend's answer to the classification call
  scores,            \* keyword scores <<diet, fitness, medical>>
  decisions          \* the first classify call of a router and its latest one

VARIABLES
  additional_context, \* the caller's additional_context argument
  request_context,    \* the context dict process_message builds
  handed,             \* the contexts handed on, in order: to whom, and what
  endpoint,           \* the chat endpoint serving: "message" or "message_with_image"
  sink,               \* how the Chat Log Sink behaves during the request
  client,             \* the HTTP client: "connected" or "disconnected"
  frames,             \* the frames event_generator has yielded so far
  accumulated_content, \* the content pieces event_generator has accumulated
  routing_info,       \* the routing event event_generator has kept
  chat_log,           \* the save_chat_log calls made, in order
  http_response,      \* what the caller of the non-streaming endpoint receives
  health_data,        \* context["health_data"]: the day's figures, present or not
  analysis,           \* what FitnessAgent._analyze_activity returned
  fitness_response,   \* the parts of the text FitnessAgent._format_response built
  message_text,       \* LLMMessage.multimodal: the text argument
  image_urls,         \* LLMMessage.multimodal: the image_urls argument
  image_base64_entries, \* LLMMessage.multimodal: the image_base64_list argument
  llm_message,        \* what LLMMessage.multimodal returned or raised
  api_mode,           \* BaseAgent._api_mode
  has_responses,      \* hasattr(self._llm_provider, "responses")
  llm_text,           \* what BaseAgent.call_llm returned or raised
  processed_events,   \* feishu_webhook._processed_events
  handlers,           \* the feishu_webhook requests under way, by slot
  watched,            \* the event_id whose processing is counted
  invocations         \* orchestrator.process_message calls made for the watched id

orchestrator_vars ==
  << user_message, mode, llm_provider, image_base64_list, pc, user_context, fault,
     routing, agent, events, fragments, backend, result, calls, llm_response,
     scores, decisions >>

merge_vars == << additional_context, request_context, handed >>

endpoint_vars ==
  << endpoint, sink, client, frames, accumulated_content, routing_info, chat_log,
     http_response >>

fitness_vars == << health_data, analysis, fitness_response >>

llm_vars ==
  << message_text, image_urls, image_base64_entries, llm_message, api_mode,
     has_responses, llm_text >>

feishu_vars == << processed_events, handlers, watched, invocations >>

more_vars == << merge_vars, endpoint_vars, fitness_vars, llm_vars, feishu_vars >>

\* the state a specification of one part leaves alone
beside_merge == << endpoint_vars, fitness_vars, llm_vars, feishu_vars >>

beside_endpoint == << merge_vars, fitness_vars, llm_vars, feishu_vars >>

beside_fitness == << merge_vars, endpoint_vars, llm_vars, feishu_vars >>

beside_llm == << merge_vars, endpoint_vars, fitness_vars, feishu_vars >>

beside_feishu == << merge_vars, endpoint_vars, fitness_vars, llm_vars >>

vars == << orchestrator_vars, more_vars >>

----------------------------------------------------------------------------
(* Bounds *)

\* longest message, in chunks of Vocabulary
MaxChunks == 2

\* most fragments a Model Backend token stream yields
MaxFragments == 2

\* most image URLs, and most base64 entries, given to LLMMessage.multimodal
MaxImages == 2

\* feishu_webhook._MAX_PROCESSED_EVENTS, the cap on the processed-id set: 1000
\* in the program, scaled down here so that the set can overflow
MAX_PROCESSED_EVENTS == 4

\* largest keyword score drawn for the selection policy
MaxScore == 4

----------------------------------------------------------------------------
(* Text *)

\* str.lower() on one character; characters without case map to themselves
Lower(c) ==
  CASE c = "H" -> "h"
    [] c = "E" -> "e"
    [] OTHER -> c

\* str.lower()
LowerStr(s) == [i \in 1..Len(s) |-> Lower(s[i])]

\* Python's `kw in text` for strings: kw occurs as a contiguous substring
Contains(text, kw) ==
  \E i \in 0..(Len(text) - Len(kw)) :
     \A j \in 1..Len(kw) : text[i + j] = kw[j]

\* the chunks messages are built from
Vocabulary ==
  { <<"H","e","l","l","o","!">>, <<"E","a","t">>, <<"r","u","n">>, <<"t","e","s","t">>,
    <<"u4f60","u597d">> }

RECURSIVE ChunkSeqs(_)
ChunkSeqs(n) ==
  IF n = 0 THEN { <<>> }
  ELSE LET shorter == ChunkSeqs(n - 1)
       IN  shorter \cup { s \o c : s \in shorter, c \in Vocabulary }

\* every message of at most MaxChunks chunks
Messages == ChunkSeqs(MaxChunks)

----------------------------------------------------------------------------
(* RouterAgent: keyword strategy *)

\* router_agent.py: diet_keywords (non-ASCII characters are written by code point)
diet_keywords ==
  << <<"f","o","o","d">>, <<"e","a","t">>, <<"m","e","a","l">>,
    <<"b","r","e","a","k","f","a","s","t">>, <<"l","u","n","c","h">>,
    <<"d","i","n","n","e","r">>, <<"s","n","a","c","k">>, <<"r","e","c","i","p","e">>,
    <<"c","a","l","o","r","i","e">>, <<"g","i">>, <<"g","l","y","c","e","m","i","c">>,
    <<"n","u","t","r","i","t","i","o","n">>, <<"d","i","e","t">>,
    <<"h","u","n","g","r","y">>, <<"u5403">>, <<"u98df","u7269">>, <<"u65e9","u9910">>,
    <<"u5348","u9910">>, <<"u665a","u9910">>, <<"u70ed","u91cf">>, <<"u8425","u517b">>,
    <<"u996e","u98df">>, <<"u8840","u7cd6">>, <<"u5347","u7cd6">> >>

\* router_agent.py: fitness_keywords
fitness_keywords ==
  << <<"w","a","l","k">>, <<"r","u","n">>, <<"e","x","e","r","c","i","s","e">>,
    <<"w","o","r","k","o","u","t">>, <<"g","y","m">>, <<"s","t","e","p","s">>,
    <<"a","c","t","i","v","i","t","y">>, <<"t","r","a","i","n","i","n","g">>,
    <<"c","a","r","d","i","o">>, <<"s","t","r","e","n","g","t","h">>,
    <<"f","i","t","n","e","s","s">>,
    <<"c","a","l","o","r","i","e","s"," ","b","u","r","n","e","d">>, <<"u8fd0","u52a8">>,
    <<"u6b65","u6570">>, <<"u953b","u70bc">>, <<"u5065","u8eab">>, <<"u8dd1","u6b65">>,
    <<"u6563","u6b65">> >>

\* router_agent.py: medical_keywords
medical_keywords ==
  << <<"b","l","o","o","d">>, <<"t","e","s","t">>, <<"r","e","s","u","l","t">>,
    <<"m","e","d","i","c","a","l">>, <<"d","o","c","t","o","r">>,
    <<"i","n","s","u","l","i","n">>, <<"g","l","u","c","o","s","e">>, <<"a","1","c">>,
    <<"m","e","d","i","c","a","t","i","o","n">>,
    <<"p","r","e","s","c","r","i","p","t","i","o","n">>,
    <<"h","e","a","l","t","h"," ","r","e","c","o","r","d">>, <<"u4f53","u68c0">>,
    <<"u62a5","u544a">>, <<"u5316","u9a8c">>, <<"u533b","u7597">>, <<"u533b","u751f">>,
    <<"u80f0","u5c9b","u7d20">>, <<"u6307","u6807">> >>

\* orchestrator.py _handle_general: the greeting tokens
greetings ==
  << <<"h","e","l","l","o">>, <<"h","i">>, <<"u4f60","u597d">>, <<"u60a8","u597d">>,
    <<"h","e","y">> >>

Min(a, b) == IF a < b THEN a ELSE b

\* sum(1 for kw in keywords if kw in user_message_lower): each keyword of the
\* list counts once when it occurs in the text
Score(keywords, text) ==
  Cardinality({ i \in 1..Len(keywords) : Contains(text, keywords[i]) })

\* a Routing Decision returned by the router
Decision(a, c, r) ==
  [status |-> "returned", agent |-> a, confidence |-> c, reason |-> r, exc |-> "none"]

\* an exception leaving RouterAgent.process_request
RouterRaised(e) ==
  [status |-> "raised", agent |-> "none", confidence |-> 0, reason |-> "none", exc |-> e]

\* no routing call made yet
NoRouting ==
  [status |-> "none", agent |-> "none", confidence |-> 0, reason |-> "none", exc |-> "none"]

\* mutant of KeywordConfidence: the cap of 0.95 is left out
KeywordConfidenceUncapped(score) == 60 + score * 10

\* min(0.6 + score * 0.1, 0.95), in hundredths
KeywordConfidence(score) == Min(60 + score * 10, 95)

\* mutant of SelectByScores: picks the category of greatest score, ties included
SelectByScoresMax(diet_score, fitness_score, medical_score) ==
  IF diet_score >= fitness_score /\ diet_score >= medical_score /\ diet_score > 0
  THEN Decision("diet", KeywordConfidence(diet_score),
                "Message contains diet/food-related keywords")
  ELSE IF fitness_score >= diet_score /\ fitness_score >= medical_score /\ fitness_score > 0
  THEN Decision("fitness", KeywordConfidence(fitness_score),
                "Message contains fitness/activity-related keywords")
  ELSE IF medical_score > 0
  THEN Decision("medical", KeywordConfidence(medical_score),
                "Message contains medical-related keywords")
  ELSE Decision("general", 80, "General conversation or greeting")

\* mutant of SelectByScores: the first comparison is not strict, so diet wins
\* a tie with fitness
SelectByScoresDietFirst(diet_score, fitness_score, medical_score) ==
  IF diet_score >= fitness_score /\ diet_score > medical_score
  THEN Decision("diet", KeywordConfidence(diet_score),
                "Message contains diet/food-related keywords")
  ELSE IF fitness_score > diet_score /\ fitness_score > medical_score
  THEN Decision("fitness", KeywordConfidence(fitness_score),
                "Message contains fitness/activity-related keywords")
  ELSE IF medical_score > 0
  THEN Decision("medical", KeywordConfidence(medical_score),
                "Message contains medical-related keywords")
  ELSE Decision("general", 80, "General conversation or greeting")

\* _route_with_keywords, the if/elif chain over the three scores
SelectByScores(diet_score, fitness_score, medical_score) ==
  IF diet_score > fitness_score /\ diet_score > medical_score
  THEN Decision("diet", KeywordConfidence(diet_score),
                "Message contains diet/food-related keywords")
  ELSE IF fitness_score > diet_score /\ fitness_score > medical_score
  THEN Decision("fitness", KeywordConfidence(fitness_score),
                "Message contains fitness/activity-related keywords")
  ELSE IF medical_score > 0
  THEN Decision("medical", KeywordConfidence(medical_score),
                "Message contains medical-related keywords")
  ELSE Decision("general", 80, "General conversation or greeting")

\* the three keyword scores of a message
KeywordScores(message) ==
  LET user_message_lower == LowerStr(message)
  IN  << Score(diet_keywords, user_message_lower),
         Score(fitness_keywords, user_message_lower),
         Score(medical_keywords, user_message_lower) >>

\* RouterAgent._route_with_keywords
route_with_keywords(message) ==
  LET s == KeywordScores(message)
  IN  SelectByScores(s[1], s[2], s[3])

----------------------------------------------------------------------------
(* RouterAgent: model-assisted strategy *)

\* a JSON key that is not there
Absent == [t |-> "absent", v |-> 0]

\* the values the model's "confidence" key is drawn from: absent, a number
\* (in hundredths), a numeric string ("0.7"), a non-numeric string, null, a list
ConfFields ==
  { Absent } \cup { [t |-> "num", v |-> n] : n \in {-100, 0, 90, 100, 150} }
             \cup { [t |-> "numstr", v |-> 70], [t |-> "badstr", v |-> 0],
                    [t |-> "null", v |-> 0], [t |-> "list", v |-> 0] }

\* the values the model's "agent" key is drawn from: absent, the four tags,
\* another string, null, an unhashable value (a list or an object)
AgentFields ==
  { "absent", "diet", "fitness", "medical", "general", "other", "null", "unhashable" }

\* the values the model's "reason" key is drawn from
ReasonFields == { "absent", "model reason" }

\* what a chat completion yields when it is not a JSON object:
\*   raise      the provider call raises
\*   prose      text that is not JSON
\*   num, null, bool   a JSON scalar
\*   str, str_agent    a JSON string, without / with the substring "agent"
\*   list, list_agent  a JSON array, without / with the element "agent"
NonObject(k) == [k |-> k, agent |-> "absent", conf |-> Absent, reason |-> "absent"]

\* a JSON object with the given keys
Object(a, c, r) == [k |-> "obj", agent |-> a, conf |-> c, reason |-> r]

\* every outcome of the classification call
Replies ==
  { NonObject(k) : k \in { "raise", "prose", "num", "null", "bool",
                           "str", "str_agent", "list", "list_agent" } }
  \cup { Object(a, c, r) : a \in AgentFields, c \in ConfFields, r \in ReasonFields }

\* no model call is made
NoReply == NonObject("none")

\* the text call_llm returns when the provider raised: "[LLM call failed for ...]"
LLMCallFailed == NonObject("failtext")

\* mutant of call_llm: no except clause turns a provider error into the
\* failure text
call_llm_no_except(completion) == completion

\* BaseAgent.call_llm with a provider configured: the content of the
\* completion, or the failure text when the provider raises
call_llm(completion) ==
  IF completion.k = "raise" THEN LLMCallFailed ELSE completion

valid_agents == { "diet", "fitness", "medical", "general" }

\* the try block of _route_with_llm on the text call_llm returned:
\*   [out |-> "return", decision]  the return inside the block
\*   [out |-> "fall"]              the block ends without returning
\*   [out |-> <exception class>]   the block raises
TryParse(text) ==
  LET none == NoRouting
      Out(o) == [out |-> o, decision |-> none]
  IN
  \* json.loads(llm_response.strip())
  IF text.k \in { "failtext", "prose" } THEN Out("JSONDecodeError")
  \* "agent" in result
  ELSE IF text.k \in { "num", "null", "bool" } THEN Out("TypeError")
  ELSE IF text.k \in { "str", "list" } THEN Out("fall")
  \* result["agent"] on a string or a list
  ELSE IF text.k \in { "str_agent", "list_agent" } THEN Out("TypeError")
  ELSE IF text.agent = "absent" THEN Out("fall")
  \* result["agent"] in valid_agents
  ELSE IF text.agent = "unhashable" THEN Out("TypeError")
  ELSE IF text.agent \notin valid_agents THEN Out("fall")
  \* float(result.get("confidence", 0.8))
  ELSE IF text.conf.t = "badstr" THEN Out("ValueError")
  ELSE IF text.conf.t \in { "null", "list" } THEN Out("TypeError")
  ELSE [out |-> "return",
        decision |-> Decision(text.agent,
                              IF text.conf.t = "absent" THEN 80 ELSE text.conf.v,
                              IF text.reason = "absent" THEN "LLM routing"
                              ELSE text.reason)]

\* mutant of Caught: the except clause names KeyError alone
CaughtKeyErrorOnly == { "KeyError" }

\* the exception classes the except clause of _route_with_llm names
\* (JSONDecodeError is a ValueError)
Caught == { "JSONDecodeError", "ValueError", "KeyError" }

\* mutant of route_with_llm: the keyword strategy is asked first and the model
\* only decides the messages it leaves to general
route_with_llm_keywords_first(message, completion) ==
  LET t == TryParse(call_llm(completion))
      k == route_with_keywords(message)
  IN  IF k.agent # "general" THEN k
      ELSE IF t.out = "return" THEN t.decision
      ELSE IF t.out = "fall" \/ t.out \in { "JSONDecodeError", "ValueError", "KeyError" }
      THEN k
      ELSE RouterRaised(t.out)

\* RouterAgent._route_with_llm
route_with_llm(message, completion) ==
  LET t == TryParse(call_llm(completion))
  IN  IF t.out = "return" THEN t.decision
      ELSE IF t.out = "fall" \/ t.out \in Caught THEN route_with_keywords(message)
      ELSE RouterRaised(t.out)

\* the contexts a classify call is drawn with: nothing, fetched history with
\* images, and a caller-supplied key asking for a routing override
Contexts ==
  { [user_history |-> "", extra |-> "none"],
    [user_history |-> "history", extra |-> "image_base64_list"],
    [user_history |-> "history", extra |-> "agent_override"] }

\* RouterAgent.process_request
process_request(message, provider, completion) ==
  IF provider # "none" THEN route_with_llm(message, completion)
  ELSE route_with_keywords(message)

\* mutant of process_request_in_context: a caller-supplied override key in the
\* context decides the routing
process_request_override(message, context, provider, completion) ==
  IF context.extra = "agent_override"
  THEN Decision("medical", 100, "override")
  ELSE process_request(message, provider, completion)

\* RouterAgent.process_request(user_message, context): the context reaches
\* _route_with_llm (for the prompt) and never _route_with_keywords
process_request_in_context(message, context, provider, completion) ==
  IF provider # "none" THEN route_with_llm(message, completion)
  ELSE route_with_keywords(message)

----------------------------------------------------------------------------
(* Specialists and the static responder *)

\* the name each agent passes to BaseAgent.__init__
AgentName(tag) ==
  CASE tag = "diet" -> "DietAgent"
    [] tag = "fitness" -> "FitnessAgent"
    [] tag = "medical" -> "MedicalAgent"
    [] OTHER -> "general"

\* a piece of response text: who produced it, what it is, and (for a token of
\* the Model Backend's stream) its position in the stream
Text(src, kind, n) == [src |-> src, kind |-> kind, n |-> n]

NoText == Text("none", "none", 0)

\* the k-th token the Model Backend streams in answer to an agent's prompt
Token(name, k) == Text(name, "token", k)

\* the templated answer an agent builds when no provider is configured
Template(name) == Text(name, "template", 0)

\* what call_llm returned to a specialist: the completion's content, or
\* "[LLM call failed for <name>: ...]"
LLMText(name, text) ==
  IF text = LLMCallFailed THEN Text(name, "call_failed", 0)
  ELSE Text(name, "completion", 0)

\* "[LLM stream failed for <name>: ...]", yielded by call_llm_stream's except clause
StreamFailed(name) == Text(name, "stream_failed", 0)

\* the outcomes of a specialist's chat completion: the provider raises, or
\* it answers in prose
SpecialistCompletions == { NonObject("raise"), NonObject("prose") }

\* DietAgent and MedicalAgent hand context["image_base64_list"] to call_llm /
\* call_llm_stream; FitnessAgent does not
PassesImages(tag) == tag \in { "diet", "medical" }

\* LLMMessage.multimodal reads img['media_type'] and img['data'] of every entry,
\* before the try block of call_llm / call_llm_stream: a malformed entry raises
ConversionRaises(tag, provider, images) ==
  provider # "none" /\ PassesImages(tag) /\ images = "malformed"

\* mutant of handle_general: the greeting tokens are looked for in the message
\* as typed, not lower-cased
handle_general_case_sensitive(message) ==
  IF \E i \in 1..Len(greetings) : Contains(message, greetings[i])
  THEN Text("general", "welcome", 0)
  ELSE Text("general", "help", 0)

\* AgentOrchestrator._handle_general: the welcome text when the lower-cased
\* message contains a greeting token, the help text otherwise
handle_general(message) ==
  IF \E i \in 1..Len(greetings) : Contains(LowerStr(message), greetings[i])
  THEN Text("general", "welcome", 0)
  ELSE Text("general", "help", 0)

\* mutant of Dispatch: every decision is answered by the static responder
DispatchGeneralOnly(agent_type) == "general"

\* process_message's if/elif chain over routing["agent"]: the agent tag of the
\* responder awaited, which is the tag it writes into its response
Dispatch(agent_type) ==
  IF agent_type = "diet" THEN "diet"
  ELSE IF agent_type = "fitness" THEN "fitness"
  ELSE IF agent_type = "medical" THEN "medical"
  ELSE "general"

\* the response text a specialist's process_request returns, as the pieces it
\* is made of, for a Model Backend that behaves as given (tokens sent, and how
\* the completion ended): the templated answer without a provider, the failure
\* text of call_llm when the backend fails, the completion's content otherwise
ResponsePieces(tag, provider, behaviour) ==
  LET name == AgentName(tag)
  IN  IF provider = "none" THEN << Template(name) >>
      ELSE IF behaviour.status \in { "raised", "completion_raised" }
      THEN << LLMText(name, call_llm(NonObject("raise"))) >>
      ELSE IF provider = "nostream"
      THEN << LLMText(name, call_llm(NonObject("prose"))) >>
      ELSE [i \in 1..behaviour.sent |-> Token(name, i)]

\* the specialists that define process_request_stream
HasStreamVariant(tag) == tag \in { "diet", "fitness" }

----------------------------------------------------------------------------
(* Stream events and results *)

Event(type, a, c, r, content, error) ==
  [type |-> type, agent |-> a, confidence |-> c, reason |-> r,
   content |-> content, error |-> error]

RoutingEvent(r) == Event("routing", r.agent, r.confidence, r.reason, NoText, "none")

ContentEvent(text) == Event("content", "none", 0, "none", text, "none")

DoneEvent == Event("done", "none", 0, "none", NoText, "none")

ErrorEvent(exc) == Event("error", "none", 0, "none", NoText, exc)

NoFault == [at |-> "none", exc |-> "none"]

NoResult ==
  [status |-> "none", agent |-> "none", response |-> NoText, routing |-> NoRouting,
   exc |-> "none"]

\* the Agent Response process_message returns, with response["routing"] set
Returned(tag, text, r) ==
  [status |-> "returned", agent |-> tag, response |-> text, routing |-> r,
   exc |-> "none"]

\* process_message re-raises
Raised(exc) ==
  [status |-> "raised", agent |-> "none", response |-> NoText, routing |-> NoRouting,
   exc |-> exc]

Call(name, api) == [by |-> name, api |-> api]

\* mutant of ProviderCalls: a chat completion that raises is tried once more
ProviderCallsRetry(name, completion) ==
  IF completion = NonObject("raise")
  THEN << Call(name, "chat_completion"), Call(name, "chat_completion") >>
  ELSE << Call(name, "chat_completion") >>

\* the provider calls one call_llm makes: a single chat_completion inside its
\* try block, whatever the outcome
ProviderCalls(name, completion) == << Call(name, "chat_completion") >>

\* how a specialist's chat completion ended at the Model Backend
Completed(completion) ==
  [sent |-> 0,
   status |-> IF completion = NonObject("raise") THEN "completion_raised"
              ELSE "completion_returned"]

\* the classification outcomes drawn in a whole request: the call raising, a JSON
\* number, each accepted tag, and a confidence outside [0, 1]
OrchestratorReplies ==
  { NonObject("raise"), NonObject("num") }
  \cup { Object(a, [t |-> "num", v |-> 90], "model reason") : a \in valid_agents }
  \cup { Object("diet", [t |-> "num", v |-> 150], "absent") }

Providers == { "none", "stream", "nostream" }

----------------------------------------------------------------------------
(* Dicts, and the context a request builds *)

\* a Python dict with string keys is a function on its keys; None is set apart
\* from the empty dict
Dict(items) == [none |-> FALSE, items |-> items]

None == [none |-> TRUE, items |-> [k \in {} |-> "absent"]]

EmptyDict == Dict([k \in {} |-> "absent"])

\* x or {}: None and the empty dict are falsy
OrEmpty(x) == IF x.none \/ DOMAIN x.items = {} THEN EmptyDict ELSE x

\* mutant of Unpack: the entries written first are kept on conflict
UnpackKeepFirst(first, second) ==
  Dict([k \in DOMAIN first.items \cup DOMAIN second.items |->
          IF k \in DOMAIN first.items THEN first.items[k] ELSE second.items[k]])

\* the dict display {<entries of first>, **second}: a new dict, in which a later
\* entry replaces an earlier entry of the same key
Unpack(first, second) ==
  Dict([k \in DOMAIN first.items \cup DOMAIN second.items |->
          IF k \in DOMAIN second.items THEN second.items[k] ELSE first.items[k]])

\* context = {"user_history": user_context, **(additional_context or {})}
BuildContext(history, additional) ==
  Unpack(Dict([k \in { "user_history" } |-> history]), OrEmpty(additional))

\* the keys callers supply, and the values they and the Context Provider give
ContextKeys == { "user_history", "image_base64_list", "agent_override" }

CallerValues == { "caller_a", "caller_b" }

Histories == { "history_a", "history_b" }

AdditionalContexts ==
  { None } \cup
  { Dict(f) : f \in UNION { [K -> CallerValues] : K \in SUBSET ContextKeys } }

\* the state outside a request of the orchestrator
MergeIdle ==
  /\ additional_context = None
  /\ request_context = None
  /\ handed = <<>>

\* no routing event kept yet: routing_info = None
NoEvent == Event("none", "none", 0, "none", NoText, "none")

\* nothing received by the caller yet
NoHttpResponse == [status |-> "none", content |-> NoText]

EndpointIdle ==
  /\ endpoint = "none"
  /\ sink = "ok"
  /\ client = "connected"
  /\ frames = <<>>
  /\ accumulated_content = <<>>
  /\ routing_info = NoEvent
  /\ chat_log = <<>>
  /\ http_response = NoHttpResponse

\* a figure of health_data: absent, or present with a value
NoFigure == [has |-> FALSE, v |-> 0]

Figure(v) == [has |-> TRUE, v |-> v]

NoAnalysis ==
  [steps |-> 0, steps_status |-> "none", active_energy |-> 0, energy_status |-> "none",
   exercise_minutes |-> 0, overall_assessment |-> "none"]

FitnessIdle ==
  /\ health_data = [steps |-> NoFigure, active_energy |-> NoFigure,
                     exercise_minutes |-> NoFigure]
  /\ analysis = NoAnalysis
  /\ fitness_response = <<>>

\* an optional list argument: None, or a list
NoList == [none |-> TRUE, items |-> <<>>]

List(items) == [none |-> FALSE, items |-> items]

NoMessage == [status |-> "none", role |-> "none", content |-> <<>>]

NoLLMText == [status |-> "none", text |-> NoText]

LLMIdle ==
  /\ message_text = ""
  /\ image_urls = NoList
  /\ image_base64_entries = NoList
  /\ llm_message = NoMessage
  /\ api_mode = "chat"
  /\ has_responses = FALSE
  /\ llm_text = NoLLMText

\* a webhook slot with no request under way
IdleHandler == [stage |-> "idle", type |-> "none", event_id |-> 0]

HandlerSlots == { "a", "b" }

FeishuIdle ==
  /\ processed_events = {}
  /\ handlers = [s \in HandlerSlots |-> IdleHandler]
  /\ watched = 0
  /\ invocations = 0

MoreIdle == MergeIdle /\ EndpointIdle /\ FitnessIdle /\ LLMIdle /\ FeishuIdle

----------------------------------------------------------------------------
(* AgentOrchestrator.process_message and process_message_stream *)

Init ==
  /\ user_message \in Messages
  /\ mode \in { "stream", "call" }
  /\ llm_provider \in Providers
  /\ image_base64_list \in { "none", "ok", "malformed" }
  /\ pc = "start"
  /\ user_context = "unfetched"
  /\ fault = NoFault
  /\ routing = NoRouting
  /\ agent = "none"
  /\ events = <<>>
  /\ fragments = <<>>
  /\ backend = [sent |-> 0, status |-> "idle"]
  /\ result = NoResult
  /\ calls = <<>>
  /\ decisions = <<>>
  /\ MoreIdle
  /\ llm_response = NoReply
  /\ scores = <<0, 0, 0>>

\* mutant of Fail: process_message_stream has no outer except clause, the
\* exception leaves the generator and no event is yielded
FailUnhandled(at, exc) ==
  /\ fault' = [at |-> at, exc |-> exc]
  /\ pc' = "end"
  /\ IF mode = "stream"
     THEN UNCHANGED << events, result >>
     ELSE result' = Raised(exc) /\ UNCHANGED events

\* mutant of Fail: process_message swallows the exception and returns the
\* static help text instead of re-raising
FailSubstitute(at, exc) ==
  /\ fault' = [at |-> at, exc |-> exc]
  /\ pc' = "end"
  /\ IF mode = "stream"
     THEN events' = Append(events, ErrorEvent(exc)) /\ UNCHANGED result
     ELSE /\ result' = Returned("general", Text("general", "help", 0), routing)
          /\ UNCHANGED events

\* an exception reaches the outer except clause: process_message re-raises it,
\* process_message_stream yields one error event and finishes
Fail(at, exc) ==
  /\ fault' = [at |-> at, exc |-> exc]
  /\ pc' = "end"
  /\ IF mode = "stream"
     THEN events' = Append(events, ErrorEvent(exc)) /\ UNCHANGED result
     ELSE result' = Raised(exc) /\ UNCHANGED events

\* await self.memory_manager.get_user_context(days_back=7)
FetchContext ==
  /\ pc = "start"
  /\ \/ /\ user_context' = "fetched"
        /\ pc' = "classify"
        /\ UNCHANGED << fault, events, result >>
     \/ /\ user_context' = "raised"
        /\ Fail("context", "StorageError")
  /\ UNCHANGED << user_message, mode, llm_provider, image_base64_list, routing, agent,
                  fragments, backend, calls, llm_response, scores,
                  decisions, more_vars >>

\* routing = await self.router.process_request(user_message, context)
Classify ==
  /\ pc = "classify"
  /\ \E completion \in
        (IF llm_provider = "none" THEN { NoReply } ELSE OrchestratorReplies) :
       LET r == process_request(user_message, llm_provider, completion)
       IN  /\ routing' = r
           /\ llm_response' = completion
           /\ calls' = IF llm_provider = "none" THEN calls
                       ELSE calls \o ProviderCalls("RouterAgent", completion)
           /\ IF r.status = "raised"
              THEN Fail("classify", r.exc)
              ELSE /\ pc' = IF mode = "stream" THEN "yield_routing" ELSE "respond"
                   /\ UNCHANGED << fault, events, result >>
  /\ UNCHANGED << user_message, mode, llm_provider, image_base64_list, user_context,
                  agent, fragments, backend, scores, decisions, more_vars >>

\* yield {"type": "routing", ...}
YieldRouting ==
  /\ pc = "yield_routing"
  /\ events' = Append(events, RoutingEvent(routing))
  /\ pc' = "dispatch"
  /\ UNCHANGED << user_message, mode, llm_provider, image_base64_list, user_context,
                  fault, routing, agent, fragments, backend, result, calls,
                  llm_response, scores,
                  decisions, more_vars >>

\* the general branch: the static responder's whole text as one content event
GeneralContent ==
  /\ pc = "dispatch"
  /\ routing.agent = "general"
  /\ events' = Append(events, ContentEvent(handle_general(user_message)))
  /\ pc' = "general_done"
  /\ UNCHANGED << user_message, mode, llm_provider, image_base64_list, user_context,
                  fault, routing, agent, fragments, backend, result, calls,
                  llm_response, scores,
                  decisions, more_vars >>

\* mutant of GeneralDone: the general branch returns without yielding done
GeneralReturnsWithoutDone ==
  /\ pc = "general_done"
  /\ pc' = "end"
  /\ UNCHANGED << user_message, mode, llm_provider, image_base64_list, user_context,
                  fault, routing, agent, events, fragments, backend, result, calls,
                  llm_response, scores, decisions, more_vars >>

\* the general branch: yield {"type": "done"}, then return
GeneralDone ==
  /\ pc = "general_done"
  /\ events' = Append(events, DoneEvent)
  /\ pc' = "end"
  /\ UNCHANGED << user_message, mode, llm_provider, image_base64_list, user_context,
                  fault, routing, agent, fragments, backend, result, calls,
                  llm_response, scores,
                  decisions, more_vars >>

\* mutant of StreamFail: the inner except clause lacks its return, so the
\* done event follows the error event
StreamFailNoReturn(exc) ==
  /\ fault' = [at |-> "stream", exc |-> exc]
  /\ events' = Append(events, ErrorEvent(exc))
  /\ pc' = "drained"

\* the inner except clause: yield one error event, then return
StreamFail(exc) ==
  /\ fault' = [at |-> "stream", exc |-> exc]
  /\ events' = Append(events, ErrorEvent(exc))
  /\ pc' = "end"

\* one fragment came out of agent.process_request_stream: a content event
Emit(text) ==
  /\ fragments' = Append(fragments, text)
  /\ events' = Append(events, ContentEvent(text))

\* the specialist is picked and the first fragment is asked of
\* agent.process_request_stream(user_message, context)
SpecialistStart ==
  /\ pc = "dispatch"
  /\ routing.agent # "general"
  /\ agent' = routing.agent
  /\ LET tag == routing.agent
         name == AgentName(tag)
     IN  IF ~HasStreamVariant(tag)
         THEN \* AttributeError: no process_request_stream on this agent
              /\ StreamFail("AttributeError")
              /\ UNCHANGED << fragments, backend, calls >>
         ELSE IF llm_provider = "none"
         THEN \* result = await self.process_request(...); yield result["response"]
              /\ Emit(Template(name))
              /\ pc' = "drained"
              /\ UNCHANGED << fault, backend, calls >>
         ELSE IF ConversionRaises(tag, llm_provider, image_base64_list)
         THEN /\ StreamFail("KeyError")
              /\ UNCHANGED << fragments, backend, calls >>
         ELSE IF llm_provider = "nostream"
         THEN \* call_llm_stream falls back to call_llm and yields its text
              /\ \E completion \in SpecialistCompletions :
                   /\ Emit(LLMText(name, call_llm(completion)))
                   /\ backend' = Completed(completion)
                   /\ calls' = calls \o ProviderCalls(name, completion)
              /\ pc' = "drained"
              /\ UNCHANGED fault
         ELSE \* self._llm_provider.chat_completion_stream(...)
              /\ calls' = Append(calls, Call(name, "chat_completion_stream"))
              /\ backend' = [sent |-> 0, status |-> "open"]
              /\ pc' = "streaming"
              /\ UNCHANGED << fault, fragments, events >>
  /\ UNCHANGED << user_message, mode, llm_provider, image_base64_list, user_context,
                  routing, result, llm_response, scores,
                  decisions, more_vars >>

\* the Model Backend streams one more token
BackendToken ==
  /\ pc = "streaming"
  /\ backend.sent < MaxFragments
  /\ backend' = [backend EXCEPT !.sent = @ + 1]
  /\ Emit(Token(AgentName(agent), backend.sent + 1))
  /\ UNCHANGED << user_message, mode, llm_provider, image_base64_list, pc, user_context,
                  fault, routing, agent, result, calls, llm_response, scores,
                  decisions, more_vars >>

\* the Model Backend's stream raises: call_llm_stream's except clause yields
\* the failure text as one more fragment and the generator finishes
BackendRaise ==
  /\ pc = "streaming"
  /\ backend' = [backend EXCEPT !.status = "raised"]
  /\ Emit(StreamFailed(AgentName(agent)))
  /\ pc' = "drained"
  /\ UNCHANGED << user_message, mode, llm_provider, image_base64_list, user_context,
                  fault, routing, agent, result, calls, llm_response, scores,
                  decisions, more_vars >>

\* the Model Backend's stream ends
BackendEnd ==
  /\ pc = "streaming"
  /\ backend' = [backend EXCEPT !.status = "ended"]
  /\ pc' = "drained"
  /\ UNCHANGED << user_message, mode, llm_provider, image_base64_list, user_context,
                  fault, routing, agent, events, fragments, result, calls,
                  llm_response, scores,
                  decisions, more_vars >>

\* the specialist's stream is exhausted: yield {"type": "done"}
StreamEnd ==
  /\ pc = "drained"
  /\ events' = Append(events, DoneEvent)
  /\ pc' = "end"
  /\ UNCHANGED << user_message, mode, llm_provider, image_base64_list, user_context,
                  fault, routing, agent, fragments, backend, result, calls,
                  llm_response, scores,
                  decisions, more_vars >>

\* process_message: the responder named by the decision answers, the decision
\* is attached under "routing" and the response is returned
Respond ==
  /\ pc = "respond"
  /\ LET tag == Dispatch(routing.agent)
         name == AgentName(tag)
     IN  IF tag = "general"
         THEN /\ result' = Returned("general", handle_general(user_message), routing)
              /\ pc' = "end"
              /\ UNCHANGED << fault, events, calls, backend >>
         ELSE IF llm_provider = "none"
         THEN /\ result' = Returned(tag, Template(name), routing)
              /\ pc' = "end"
              /\ UNCHANGED << fault, events, calls, backend >>
         ELSE IF ConversionRaises(tag, llm_provider, image_base64_list)
         THEN /\ Fail("respond", "KeyError")
              /\ UNCHANGED << calls, backend >>
         ELSE /\ \E completion \in SpecialistCompletions :
                   /\ result' = Returned(tag, LLMText(name, call_llm(completion)), routing)
                   /\ backend' = Completed(completion)
                   /\ calls' = calls \o ProviderCalls(name, completion)
              /\ pc' = "end"
              /\ UNCHANGED << fault, events >>
  /\ UNCHANGED << user_message, mode, llm_provider, image_base64_list, user_context,
                  routing, agent, fragments, llm_response, scores, decisions, more_vars >>

Next ==
  \/ FetchContext
  \/ Classify
  \/ YieldRouting
  \/ GeneralContent
  \/ GeneralDone
  \/ SpecialistStart
  \/ BackendToken
  \/ BackendRaise
  \/ BackendEnd
  \/ StreamEnd
  \/ Respond

Spec == Init /\ [][Next]_vars

----------------------------------------------------------------------------
(* RouterAgent.process_request on its own *)

InitRouter ==
  /\ user_message \in Messages
  /\ llm_provider \in Providers
  /\ llm_response \in (IF llm_provider = "none" THEN { NoReply } ELSE Replies)
  /\ pc = "router_start"
  /\ mode = "router"
  /\ image_base64_list = "none"
  /\ user_context = "unfetched"
  /\ fault = NoFault
  /\ routing = NoRouting
  /\ agent = "none"
  /\ events = <<>>
  /\ fragments = <<>>
  /\ backend = [sent |-> 0, status |-> "idle"]
  /\ result = NoResult
  /\ calls = <<>>
  /\ decisions = <<>>
  /\ MoreIdle
  /\ scores = <<0, 0, 0>>

\* result = await router.process_request(user_message, context)
RouterCall ==
  /\ pc = "router_start"
  /\ routing' = process_request(user_message, llm_provider, llm_response)
  /\ pc' = "router_done"
  /\ UNCHANGED << user_message, mode, llm_provider, image_base64_list, user_context,
                  fault, agent, events, fragments, backend, result, calls, llm_response,
                  scores,
                  decisions, more_vars >>

NextRouter == RouterCall

SpecRouter == InitRouter /\ [][NextRouter]_vars

----------------------------------------------------------------------------
(* The selection policy of _route_with_keywords over score triples *)

InitKw ==
  /\ scores \in (0..MaxScore) \X (0..MaxScore) \X (0..MaxScore)
  /\ pc = "kw_start"
  /\ mode = "keywords"
  /\ user_message = <<>>
  /\ llm_provider = "none"
  /\ llm_response = NoReply
  /\ image_base64_list = "none"
  /\ user_context = "unfetched"
  /\ fault = NoFault
  /\ routing = NoRouting
  /\ agent = "none"
  /\ events = <<>>
  /\ fragments = <<>>
  /\ backend = [sent |-> 0, status |-> "idle"]
  /\ result = NoResult
  /\ calls = <<>>
  /\ decisions = <<>>
  /\ MoreIdle

\* the if/elif chain applied to the drawn scores
KwSelect ==
  /\ pc = "kw_start"
  /\ routing' = SelectByScores(scores[1], scores[2], scores[3])
  /\ pc' = "kw_done"
  /\ UNCHANGED << user_message, mode, llm_provider, image_base64_list, user_context,
                  fault, agent, events, fragments, backend, result, calls, llm_response,
                  scores,
                  decisions, more_vars >>

NextKw == KwSelect

SpecKw == InitKw /\ [][NextKw]_vars

----------------------------------------------------------------------------
(* Repeated classify calls on one RouterAgent without a provider *)

InitCalls ==
  /\ user_message \in Messages
  /\ decisions = <<>>
  /\ MoreIdle
  /\ pc = "calls"
  /\ mode = "classify"
  /\ llm_provider = "none"
  /\ llm_response = NoReply
  /\ image_base64_list = "none"
  /\ user_context = "unfetched"
  /\ fault = NoFault
  /\ routing = NoRouting
  /\ agent = "none"
  /\ events = <<>>
  /\ fragments = <<>>
  /\ backend = [sent |-> 0, status |-> "idle"]
  /\ result = NoResult
  /\ calls = <<>>
  /\ scores = <<0, 0, 0>>

\* one more await router.process_request(user_message, context) with the
\* message under study; the first such call and the latest one are kept
ClassifyCall ==
  /\ pc = "calls"
  /\ \E context \in Contexts :
       LET entry == [message |-> user_message, context |-> context,
                     decision |-> process_request_in_context(user_message, context,
                                                             llm_provider, NoReply)]
       IN  decisions' = IF decisions = <<>> THEN << entry >>
                        ELSE << decisions[1], entry >>
  /\ UNCHANGED << user_message, mode, llm_provider, image_base64_list, pc, user_context,
                  fault, routing, agent, events, fragments, backend, result, calls,
                  llm_response, scores, more_vars >>

\* a call made in between, with some other message and context
OtherCall ==
  /\ pc = "calls"
  /\ \E message \in Vocabulary, context \in Contexts :
       routing' = process_request_in_context(message, context, llm_provider, NoReply)
  /\ UNCHANGED << user_message, mode, llm_provider, image_base64_list, pc, user_context,
                  fault, agent, events, fragments, backend, result, calls,
                  llm_response, scores, decisions, more_vars >>

NextCalls == ClassifyCall \/ OtherCall

SpecCalls == InitCalls /\ [][NextCalls]_vars

----------------------------------------------------------------------------
(* The context of a request: fetched history overlaid with additional_context *)

\* no request of the orchestrator is under way
RequestIdle ==
  /\ user_message = <<>>
  /\ llm_provider = "none"
  /\ llm_response = NoReply
  /\ image_base64_list = "none"
  /\ fault = NoFault
  /\ routing = NoRouting
  /\ agent = "none"
  /\ events = <<>>
  /\ fragments = <<>>
  /\ backend = [sent |-> 0, status |-> "idle"]
  /\ result = NoResult
  /\ calls = <<>>
  /\ scores = <<0, 0, 0>>
  /\ decisions = <<>>

request_vars ==
  << user_message, llm_provider, llm_response, image_base64_list, fault, routing,
     agent, events, fragments, backend, result, calls, scores, decisions >>

Handed(to, ctx) == [to |-> to, context |-> ctx]

InitMerge ==
  /\ RequestIdle
  /\ mode \in { "stream", "call" }
  /\ pc = "merge_start"
  /\ user_context = "unfetched"
  /\ additional_context \in AdditionalContexts
  /\ request_context = None
  /\ handed = <<>>
  /\ EndpointIdle
  /\ FitnessIdle
  /\ LLMIdle
  /\ FeishuIdle

\* user_context = await self.memory_manager.get_user_context(days_back=7)
MergeFetch ==
  /\ pc = "merge_start"
  /\ user_context' \in Histories
  /\ pc' = "merge_build"
  /\ UNCHANGED << request_vars, beside_merge, mode, additional_context, request_context, handed >>

\* context = {"user_history": user_context, **(additional_context or {})}
MergeBuild ==
  /\ pc = "merge_build"
  /\ request_context' = BuildContext(user_context, additional_context)
  /\ pc' = "merge_route"
  /\ UNCHANGED << request_vars, beside_merge, mode, user_context, additional_context, handed >>

\* routing = await self.router.process_request(user_message, context)
MergeRoute ==
  /\ pc = "merge_route"
  /\ handed' = Append(handed, Handed("router", request_context))
  /\ pc' = "merge_respond"
  /\ UNCHANGED << request_vars, beside_merge, mode, user_context, additional_context,
                  request_context >>

\* the responder is given the same context object
MergeRespond ==
  /\ pc = "merge_respond"
  /\ handed' = Append(handed, Handed("responder", request_context))
  /\ pc' = "merge_done"
  /\ UNCHANGED << request_vars, beside_merge, mode, user_context, additional_context,
                  request_context >>

NextMerge == MergeFetch \/ MergeBuild \/ MergeRoute \/ MergeRespond

SpecMerge == InitMerge /\ [][NextMerge]_vars

----------------------------------------------------------------------------
(* The chat endpoints: send_message and send_message_with_image *)

\* f"data: {json.dumps(event, ensure_ascii=False)}\n\n"
Frame(event) == [data |-> event]

\* mutant of Accumulate: only the latest content is kept
AccumulateLatest(accumulated, content) == << content >>

\* accumulated_content += content
Accumulate(accumulated, content) == Append(accumulated, content)

\* MemoryManager.save_chat_log as the endpoint sees it: LocalStorage.save turns
\* an I/O error into False; an exception raised elsewhere leaves save_chat_log
save_chat_log(behaviour) ==
  CASE behaviour = "ok" -> "True"
    [] behaviour = "io_error" -> "False"
    [] OTHER -> "raised"

\* one save_chat_log call: the assistant entry's content and agent, and how the
\* call ended
LogCall(content, tag, behaviour) ==
  [content |-> content, agent |-> tag, outcome |-> save_chat_log(behaviour)]

\* the outcomes of orchestrator.process_message drawn for the endpoint
EndpointDecisions == { Decision(a, 80, "reason") : a \in { "diet", "general" } }

ProcessMessageOutcomes ==
  { Returned(r.agent, Text(AgentName(r.agent), "completion", 0), r) :
      r \in EndpointDecisions }
  \cup { Raised("StorageError") }

\* the events process_message_stream may yield next, given those yielded so
\* far: routing or error first, then content events, closed by done or error
NextEvents(yielded) ==
  IF yielded = <<>>
  THEN { RoutingEvent(r) : r \in EndpointDecisions } \cup { ErrorEvent("StorageError") }
  ELSE IF yielded[Len(yielded)].type \in { "done", "error" } THEN {}
  ELSE { DoneEvent, ErrorEvent("AttributeError") } \cup
       ( IF Len(yielded) <= MaxFragments
         THEN { ContentEvent(Token(AgentName(yielded[1].agent), Len(yielded))) }
         ELSE {} )

InitEndpoint ==
  /\ RequestIdle
  /\ MergeIdle
  /\ FitnessIdle
  /\ LLMIdle
  /\ FeishuIdle
  /\ mode \in { "stream", "call" }
  /\ pc = IF mode = "call" THEN "endpoint_start" ELSE "gen_pull"
  /\ user_context = "unfetched"
  /\ endpoint \in { "message", "message_with_image" }
  /\ sink \in { "ok", "io_error", "raises" }
  /\ client = "connected"
  /\ frames = <<>>
  /\ accumulated_content = <<>>
  /\ routing_info = NoEvent
  /\ chat_log = <<>>
  /\ http_response = NoHttpResponse

endpoint_frame ==
  << user_message, llm_provider, llm_response, image_base64_list, fault, routing,
     agent, fragments, backend, calls, scores, decisions, user_context, mode,
     beside_endpoint, endpoint, sink >>

\* agent_response = await orchestrator.process_message(...)
EndpointProcess ==
  /\ pc = "endpoint_start"
  /\ \E outcome \in ProcessMessageOutcomes :
       /\ result' = outcome
       /\ IF outcome.status = "raised"
          THEN /\ http_response' = [status |-> "raised", content |-> NoText]
               /\ pc' = "endpoint_done"
          ELSE /\ pc' = "endpoint_save"
               /\ UNCHANGED http_response
  /\ UNCHANGED << endpoint_frame, events, client, frames, accumulated_content,
                  routing_info, chat_log >>

\* await memory_manager.save_chat_log(session_id, [...]), outside any try
EndpointSave ==
  /\ pc = "endpoint_save"
  /\ chat_log' = Append(chat_log, LogCall(<< result.response >>, result.agent, sink))
  /\ IF save_chat_log(sink) = "raised"
     THEN /\ http_response' = [status |-> "raised", content |-> NoText]
          /\ pc' = "endpoint_done"
     ELSE /\ pc' = "endpoint_return"
          /\ UNCHANGED http_response
  /\ UNCHANGED << endpoint_frame, events, result, client, frames,
                  accumulated_content, routing_info >>

\* return ChatMessage(role="assistant", content=agent_response["response"], ...)
EndpointReturn ==
  /\ pc = "endpoint_return"
  /\ http_response' = [status |-> "returned", content |-> result.response]
  /\ pc' = "endpoint_done"
  /\ UNCHANGED << endpoint_frame, events, result, client, frames,
                  accumulated_content, routing_info, chat_log >>

\* async for event in orchestrator.process_message_stream(...): the orchestrator
\* yields its next event, or its generator is exhausted and the loop ends
OrchestratorYields ==
  /\ pc = "gen_pull"
  /\ client = "connected"
  /\ IF NextEvents(events) = {}
     THEN pc' = "gen_finished" /\ UNCHANGED events
     ELSE /\ \E event \in NextEvents(events) : events' = Append(events, event)
          /\ pc' = "gen_handle"
  /\ UNCHANGED << endpoint_frame, result, client, frames, accumulated_content,
                  routing_info, chat_log, http_response >>

\* the branch of event_generator for the event received, up to its yield
HandleEvent ==
  /\ pc = "gen_handle"
  /\ LET event == events[Len(events)]
     IN  /\ frames' = Append(frames, Frame(event))
         /\ routing_info' = IF event.type = "routing" THEN event ELSE routing_info
         /\ accumulated_content' =
              IF event.type = "content"
              THEN Accumulate(accumulated_content, event.content)
              ELSE accumulated_content
  /\ pc' = "gen_yielded"
  /\ UNCHANGED << endpoint_frame, events, result, client, chat_log, http_response >>

\* the consumer asks for the next frame and event_generator runs on from its
\* yield: on to the next event, to the chat log after done, or out after error
Resume ==
  /\ pc = "gen_yielded"
  /\ client = "connected"
  /\ pc' = CASE events[Len(events)].type = "done" -> "gen_save"
            [] events[Len(events)].type = "error" -> "gen_finished"
            [] OTHER -> "gen_pull"
  /\ UNCHANGED << endpoint_frame, events, result, client, frames,
                  accumulated_content, routing_info, chat_log, http_response >>

\* mutant of StreamSave: save_chat_log is awaited outside the inner try, so an
\* exception reaches `except Exception as inner_e`, which yields an error frame
StreamSaveUnguarded ==
  /\ pc = "gen_save"
  /\ client = "connected"
  /\ chat_log' = Append(chat_log, LogCall(accumulated_content,
                   IF routing_info = NoEvent THEN "unknown" ELSE routing_info.agent, sink))
  /\ IF save_chat_log(sink) = "raised"
     THEN /\ frames' = Append(frames, Frame(ErrorEvent("SinkError")))
          /\ pc' = "gen_finished"
     ELSE /\ pc' = "gen_pull"
          /\ UNCHANGED frames
  /\ UNCHANGED << endpoint_frame, events, result, client, accumulated_content,
                  routing_info, http_response >>

\* after the done frame: try: await memory_manager.save_chat_log(...)
\* except Exception: pass
StreamSave ==
  /\ pc = "gen_save"
  /\ client = "connected"
  /\ chat_log' = Append(chat_log, LogCall(accumulated_content,
                   IF routing_info = NoEvent THEN "unknown" ELSE routing_info.agent, sink))
  /\ pc' = "gen_pull"
  /\ UNCHANGED << endpoint_frame, events, result, client, frames,
                  accumulated_content, routing_info, http_response >>

\* the client goes away while event_generator is suspended: at a yield, or
\* awaiting the orchestrator or the chat log
ClientDisconnect ==
  /\ pc \in { "gen_yielded", "gen_pull", "gen_save" }
  /\ client = "connected"
  /\ client' = "disconnected"
  /\ UNCHANGED << endpoint_frame, pc, events, result, frames, accumulated_content,
                  routing_info, chat_log, http_response >>

\* mutant of Close: the handlers catch the cancellation like any exception and
\* yield an error frame
CloseWritesError ==
  /\ client = "disconnected"
  /\ pc \in { "gen_yielded", "gen_pull", "gen_save" }
  /\ frames' = Append(frames, Frame(ErrorEvent("GeneratorExit")))
  /\ pc' = "gen_closed"
  /\ UNCHANGED << endpoint_frame, events, result, client, accumulated_content,
                  routing_info, chat_log, http_response >>

\* the cancellation is delivered where event_generator is suspended:
\* GeneratorExit at a yield (except GeneratorExit: return), CancelledError at
\* an await (no except Exception clause catches it); both generators end
Close ==
  /\ client = "disconnected"
  /\ pc \in { "gen_yielded", "gen_pull", "gen_save" }
  /\ pc' = "gen_closed"
  /\ UNCHANGED << endpoint_frame, events, result, client, frames,
                  accumulated_content, routing_info, chat_log, http_response >>

NextEndpoint ==
  \/ EndpointProcess
  \/ EndpointSave
  \/ EndpointReturn
  \/ OrchestratorYields
  \/ HandleEvent
  \/ Resume
  \/ StreamSave
  \/ ClientDisconnect
  \/ Close

SpecEndpoint == InitEndpoint /\ [][NextEndpoint]_vars

----------------------------------------------------------------------------
(* FitnessAgent without a Model Backend: the templated analysis *)

\* the cutoffs of _analyze_activity and _generate_exercise_plan
StepsExcellent == 10000

StepsGood == 8000

EnergyExcellent == 500

EnergyGood == 400

MinutesEnough == 30

\* health_data.get(key, 0)
Get(figure) == IF figure.has THEN figure.v ELSE 0

\* the labels are the code's 优秀 / 良好 / 需改进
\* mutant of steps_status: the upper cutoff is exclusive
steps_status_exclusive(steps) ==
  IF steps > StepsExcellent THEN "excellent"
  ELSE IF steps >= StepsGood THEN "good" ELSE "needs_improvement"

steps_status(steps) ==
  IF steps >= StepsExcellent THEN "excellent"
  ELSE IF steps >= StepsGood THEN "good" ELSE "needs_improvement"

energy_status(active_energy) ==
  IF active_energy >= EnergyExcellent THEN "excellent"
  ELSE IF active_energy >= EnergyGood THEN "good" ELSE "needs_improvement"

\* FitnessAgent._analyze_activity
analyze_activity(data) ==
  [steps |-> Get(data.steps),
   steps_status |-> steps_status(Get(data.steps)),
   active_energy |-> Get(data.active_energy),
   energy_status |-> energy_status(Get(data.active_energy)),
   exercise_minutes |-> Get(data.exercise_minutes),
   overall_assessment |-> IF Get(data.steps) >= StepsGood THEN "keep_it_up"
                          ELSE "try_harder"]

\* FitnessAgent._generate_exercise_plan: two conditional recommendations, then
\* the three fixed ones
generate_exercise_plan(a) ==
  (IF a.steps < StepsGood THEN << "more_steps" >> ELSE <<>>)
  \o (IF a.exercise_minutes < MinutesEnough THEN << "thirty_minutes" >> ELSE <<>>)
  \o << "strength_training", "regularity", "heart_rate" >>

Line(label, value, status) == [label |-> label, value |-> value, status |-> status]

\* FitnessAgent._format_response: the lines of the text, in order
format_response(a, recommendations) ==
  << Line("steps", a.steps, a.steps_status),
     Line("active_energy", a.active_energy, a.energy_status),
     Line("exercise_minutes", a.exercise_minutes, "none"),
     Line("overall_assessment", 0, a.overall_assessment) >>
  \o [i \in 1..Len(recommendations) |-> Line("recommendation", i, recommendations[i])]

\* the figures tried: absent, and values at and around every cutoff
StepsTried ==
  { NoFigure } \cup
  { Figure(v) : v \in { 0, StepsGood - 1, StepsGood, StepsGood + 1, StepsExcellent - 1,
                        StepsExcellent, StepsExcellent + 1, 12000 } }

EnergyTried ==
  { NoFigure } \cup
  { Figure(v) : v \in { 0, EnergyGood - 1, EnergyGood, EnergyGood + 1,
                        EnergyExcellent - 1, EnergyExcellent, EnergyExcellent + 1, 550 } }

MinutesTried == { NoFigure, Figure(MinutesEnough - 1), Figure(45) }

InitFitness ==
  /\ RequestIdle
  /\ MergeIdle
  /\ EndpointIdle
  /\ LLMIdle
  /\ FeishuIdle
  /\ mode = "call"
  /\ pc = "fitness_start"
  /\ user_context = "unfetched"
  /\ health_data \in [steps : StepsTried, active_energy : EnergyTried,
                       exercise_minutes : MinutesTried]
  /\ analysis = NoAnalysis
  /\ fitness_response = <<>>

\* analysis = await self._analyze_activity(user_message, context)
AnalyzeActivity ==
  /\ pc = "fitness_start"
  /\ analysis' = analyze_activity(health_data)
  /\ pc' = "fitness_analyzed"
  /\ UNCHANGED << request_vars, mode, user_context, beside_fitness, health_data,
                  fitness_response >>

\* recommendations = ...; response = self._format_response(analysis, recommendations)
FormatResponse ==
  /\ pc = "fitness_analyzed"
  /\ fitness_response' = format_response(analysis, generate_exercise_plan(analysis))
  /\ pc' = "fitness_done"
  /\ UNCHANGED << request_vars, mode, user_context, beside_fitness, health_data,
                  analysis >>

NextFitness == AnalyzeActivity \/ FormatResponse

SpecFitness == InitFitness /\ [][NextFitness]_vars

----------------------------------------------------------------------------
(* LLMMessage.multimodal *)

\* {"type": "image_url", "image_url": {"url": url}}; a URL is a sequence of the
\* strings it is put together from
ImageBlock(url) == [type |-> "image_url", url |-> url, text |-> ""]

\* {"type": "text", "text": text}
TextBlock(text) == [type |-> "text", url |-> <<>>, text |-> text]

\* an entry of image_base64_list; a malformed one lacks a key
Entry(data, media_type) == [data |-> data, media_type |-> media_type]

WellFormed(img) == img.data # "absent" /\ img.media_type # "absent"

\* f"data:{img['media_type']};base64,{img['data']}"
DataUri(img) == << "data:", img.media_type, ";base64,", img.data >>

\* `if xs: for x in xs`: nothing for None and for the empty list
Each(xs) == IF xs.none THEN <<>> ELSE xs.items

\* mutant of multimodal: the text block is appended before the images
multimodal_text_first(role, text, urls, entries) ==
  IF \E i \in 1..Len(Each(entries)) : ~WellFormed(Each(entries)[i])
  THEN [status |-> "raised", role |-> "none", content |-> <<>>]
  ELSE [status |-> "built", role |-> role,
        content |->
          << TextBlock(text) >>
          \o [i \in 1..Len(Each(urls)) |-> ImageBlock(<< Each(urls)[i] >>)]
          \o [i \in 1..Len(Each(entries)) |-> ImageBlock(DataUri(Each(entries)[i]))]]

\* LLMMessage.multimodal: image blocks for the URLs, then for the base64
\* entries, then the text block; a malformed entry raises KeyError
multimodal(role, text, urls, entries) ==
  IF \E i \in 1..Len(Each(entries)) : ~WellFormed(Each(entries)[i])
  THEN [status |-> "raised", role |-> "none", content |-> <<>>]
  ELSE [status |-> "built", role |-> role,
        content |->
          [i \in 1..Len(Each(urls)) |-> ImageBlock(<< Each(urls)[i] >>)]
          \o [i \in 1..Len(Each(entries)) |-> ImageBlock(DataUri(Each(entries)[i]))]
          \o << TextBlock(text) >>]

\* None and every list of at most MaxImages elements of S
OptionalLists(S) ==
  { NoList } \cup { List(s) : s \in UNION { [1..k -> S] : k \in 0..MaxImages } }

UrlsTried == { "https://example.com/img.jpg", "url2" }

EntriesTried ==
  { Entry("abc123", "image/jpeg"), Entry("xyz", "image/png"),
    Entry("abc123", "absent") }

InitMultimodal ==
  /\ RequestIdle
  /\ MergeIdle
  /\ EndpointIdle
  /\ FitnessIdle
  /\ FeishuIdle
  /\ mode = "call"
  /\ pc = "mm_start"
  /\ user_context = "unfetched"
  /\ message_text \in { "", "What is this?" }
  /\ image_urls \in OptionalLists(UrlsTried)
  /\ image_base64_entries \in OptionalLists(EntriesTried)
  /\ llm_message = NoMessage
  /\ api_mode = "chat"
  /\ has_responses = FALSE
  /\ llm_text = NoLLMText

\* LLMMessage.multimodal("user", text, image_urls, image_base64_list)
BuildMultimodal ==
  /\ pc = "mm_start"
  /\ llm_message' = multimodal("user", message_text, image_urls, image_base64_entries)
  /\ pc' = "mm_done"
  /\ UNCHANGED << request_vars, mode, user_context, beside_llm, message_text,
                  image_urls, image_base64_entries, api_mode, has_responses,
                  llm_text >>

NextMultimodal == BuildMultimodal

SpecMultimodal == InitMultimodal /\ [][NextMultimodal]_vars

----------------------------------------------------------------------------
(* BaseAgent.call_llm on its own *)

\* mutant of ApiCalled: the capability is not probed
ApiCalledByModeOnly(api, capable) ==
  IF api = "responses" THEN "responses" ELSE "chat_completion"

\* the provider method call_llm awaits: responses when the api mode asks for it
\* and hasattr(self._llm_provider, "responses"), chat_completion otherwise
ApiCalled(api, capable) ==
  IF api = "responses" /\ capable THEN "responses" ELSE "chat_completion"

LLMTextReturned(text) == [status |-> "returned", text |-> text]

LLMTextRaised == [status |-> "raised", text |-> NoText]

InitCallLLM ==
  /\ user_message = <<>>
  /\ llm_provider \in Providers
  /\ llm_response = NoReply
  /\ image_base64_list \in { "none", "ok", "malformed" }
  /\ fault = NoFault
  /\ routing = NoRouting
  /\ agent \in { "diet", "medical" }
  /\ events = <<>>
  /\ fragments = <<>>
  /\ backend = [sent |-> 0, status |-> "idle"]
  /\ result = NoResult
  /\ calls = <<>>
  /\ scores = <<0, 0, 0>>
  /\ decisions = <<>>
  /\ MergeIdle
  /\ EndpointIdle
  /\ FitnessIdle
  /\ FeishuIdle
  /\ mode = "call"
  /\ pc = "llm_start"
  /\ user_context = "unfetched"
  /\ message_text = ""
  /\ image_urls = NoList
  /\ image_base64_entries = NoList
  /\ llm_message = NoMessage
  /\ api_mode \in { "chat", "responses", "other" }
  /\ has_responses \in (IF llm_provider = "none" THEN { FALSE } ELSE BOOLEAN)
  /\ llm_text = NoLLMText

\* await self.call_llm(messages, temperature, image_base64_list)
CallLLM ==
  /\ pc = "llm_start"
  /\ LET name == AgentName(agent)
     IN  IF llm_provider = "none"
         THEN /\ llm_text' = LLMTextReturned(Text(name, "not_configured", 0))
              /\ UNCHANGED << calls, backend >>
         ELSE IF image_base64_list = "malformed"
         THEN \* LLMMessage.multimodal raises before the try block
              /\ llm_text' = LLMTextRaised
              /\ UNCHANGED << calls, backend >>
         ELSE \E completion \in SpecialistCompletions :
                /\ calls' = Append(calls, Call(name, ApiCalled(api_mode, has_responses)))
                /\ backend' = Completed(completion)
                /\ llm_text' = LLMTextReturned(LLMText(name, call_llm(completion)))
  /\ pc' = "llm_done"
  /\ UNCHANGED << user_message, llm_provider, llm_response, image_base64_list, fault,
                  routing, agent, events, fragments, result, scores, decisions, mode,
                  user_context, beside_llm, message_text, image_urls,
                  image_base64_entries, llm_message, api_mode, has_responses >>

NextCallLLM == CallLLM

SpecCallLLM == InitCallLLM /\ [][NextCallLLM]_vars

----------------------------------------------------------------------------
(* The Feishu webhook: deduplication of deliveries by event_id *)

\* the event ids delivered; 0 stands for the empty event_id
EventIds == 1..(MAX_PROCESSED_EVENTS + 1)

Handler(stage, type, event_id) == [stage |-> stage, type |-> type, event_id |-> event_id]

\* mutant of Excess: the set is trimmed down to the cap, not to half of it
ExcessOverCap(size) == size - MAX_PROCESSED_EVENTS

\* excess = len(_processed_events) - _MAX_PROCESSED_EVENTS // 2
Excess(size) == size - (MAX_PROCESSED_EVENTS \div 2)

\* the sets _processed_events may be after `for _ in range(excess): pop()`:
\* set.pop() removes an arbitrary element each time
Trimmed(ids) ==
  IF Cardinality(ids) > MAX_PROCESSED_EVENTS
  THEN { ids \ gone : gone \in { g \in SUBSET ids :
                                   Cardinality(g) = Excess(Cardinality(ids)) } }
  ELSE { ids }

InitFeishu ==
  /\ RequestIdle
  /\ MergeIdle
  /\ EndpointIdle
  /\ FitnessIdle
  /\ LLMIdle
  /\ mode = "call"
  /\ pc = "webhook"
  /\ user_context = "unfetched"
  /\ processed_events = {}
  /\ handlers = [s \in HandlerSlots |-> IdleHandler]
  /\ watched \in EventIds
  /\ invocations = 0

feishu_frame == << request_vars, mode, pc, user_context, beside_feishu, watched >>

\* a delivery arrives: body = await request.json()
Deliver(s) ==
  /\ handlers[s].stage = "idle"
  /\ \E type \in { "message", "other", "url_verification" },
        event_id \in { 0 } \cup EventIds :
       handlers' = [handlers EXCEPT ![s] = Handler("received", type, event_id)]
  /\ UNCHANGED << feishu_frame, processed_events, invocations >>

\* from parse_event to the next await or return, with no suspension between:
\* the verification reply, the membership check, the insertion and the trim,
\* the return for a non-message event, or the call of process_message
Dedup(s) ==
  /\ handlers[s].stage = "received"
  /\ LET h == handlers[s]
         seen == h.event_id # 0 /\ h.event_id \in processed_events
         passes == h.type # "url_verification" /\ ~seen
         invoked == passes /\ h.type = "message"
     IN  /\ IF passes /\ h.event_id # 0
            THEN processed_events' \in Trimmed(processed_events \cup { h.event_id })
            ELSE UNCHANGED processed_events
         /\ handlers' = [handlers EXCEPT ![s] =
                           IF invoked THEN Handler("processing", h.type, h.event_id)
                           ELSE IdleHandler]
         /\ invocations' = IF invoked /\ h.event_id = watched /\ invocations < 2
                           THEN invocations + 1 ELSE invocations
  /\ UNCHANGED feishu_frame

\* process_message has returned or raised, the reply is sent: return ok
Reply(s) ==
  /\ handlers[s].stage = "processing"
  /\ handlers' = [handlers EXCEPT ![s] = IdleHandler]
  /\ UNCHANGED << feishu_frame, processed_events, invocations >>

NextFeishu ==
  \E s \in HandlerSlots : Deliver(s) \/ Dedup(s) \/ Reply(s)

SpecFeishu == InitFeishu /\ [][NextFeishu]_vars

----------------------------------------------------------------------------
(* Properties *)

Terminal(e) == e.type \in { "done", "error" }

\* the content events carrying the given fragments, in order
ContentEvents(texts) == [i \in 1..Len(texts) |-> ContentEvent(texts[i])]

\* C1: every event sequence of process_message_stream matches
\* routing? content* (done | error): a routing event only in first place, a
\* terminal event only in last place and only once the generator has finished,
\* and a finished generator has yielded exactly one terminal event.
C1_StreamShape ==
  mode = "stream" =>
    /\ \A i \in 1..Len(events) :
         /\ events[i].type \in { "routing", "content", "done", "error" }
         /\ events[i].type = "routing" => i = 1
         /\ Terminal(events[i]) => i = Len(events) /\ pc = "end"
    /\ pc = "end" => events # <<>> /\ Terminal(events[Len(events)])

\* a finished stream: routing, two content events, done
C1_Witness ==
  /\ mode = "stream"
  /\ pc = "end"
  /\ Len(events) = 4
  /\ events[1].type = "routing"
  /\ events[2].type = "content"
  /\ events[3].type = "content"
  /\ events[4].type = "done"

\* C2: when the Model Backend's token stream raises while a specialist is
\* streaming, the events are routing, one content event per token already
\* streamed, then one error event, and no done event.
C2_BackendRaiseIsError ==
  mode = "stream" /\ backend.status = "raised" /\ pc = "end" =>
    /\ Len(events) = backend.sent + 2
    /\ events[1].type = "routing"
    /\ \A i \in 1..backend.sent :
         events[i + 1] = ContentEvent(Token(AgentName(agent), i))
    /\ events[Len(events)].type = "error"
    /\ \A i \in 1..Len(events) : events[i].type # "done"

\* C3: for each specialist tag chosen by the classifier (and well-formed
\* input), the finished stream is routing, one content event per fragment of
\* that specialist's streaming variant in order, then done; every fragment comes
\* from the specialist the routing event names, and medical yields at least one
\* content event like diet and fitness.
C3_SpecialistStreamed ==
  /\ mode = "stream"
  /\ pc = "end"
  /\ routing.status = "returned"
  /\ routing.agent \in { "diet", "fitness", "medical" }
  /\ image_base64_list # "malformed"
  => /\ events = << RoutingEvent(routing) >> \o ContentEvents(fragments) \o << DoneEvent >>
     /\ \A i \in 1..Len(fragments) : fragments[i].src = AgentName(routing.agent)
     /\ routing.agent = "medical" => fragments # <<>>

\* C4: in streaming mode no event is yielded before the context fetch and the
\* classification have completed, and when either of them raises the whole
\* sequence is one error event carrying that exception.
C4_ErrorBeforeRouting ==
  mode = "stream" =>
    /\ events # <<>> =>
         /\ user_context # "unfetched"
         /\ user_context = "fetched" => routing.status # "none"
    /\ user_context = "raised" =>
         pc = "end" /\ events = << ErrorEvent("StorageError") >>
    /\ routing.status = "raised" =>
         pc = "end" /\ events = << ErrorEvent(routing.exc) >>

\* the classification path raised in streaming mode
C4_Witness ==
  /\ mode = "stream"
  /\ user_context = "fetched"
  /\ routing.status = "raised"
  /\ events = << ErrorEvent("TypeError") >>

\* C5: in non-streaming mode, when the context fetch, the classification or
\* the dispatched responder raises, process_message raises that same exception
\* and returns no response.
C5_CallPropagates ==
  mode = "call" =>
    /\ user_context = "raised" => result = Raised("StorageError")
    /\ routing.status = "raised" => result = Raised(routing.exc)
    /\ ( /\ pc = "end"
         /\ routing.status = "returned"
         /\ routing.agent # "general"
         /\ ConversionRaises(routing.agent, llm_provider, image_base64_list) )
       => result = Raised("KeyError")
    /\ fault # NoFault => result.status = "raised" /\ result.response = NoText
    /\ result.status = "raised" => fault.exc = result.exc

\* the dispatched responder raised and process_message raised with it
C5_Witness ==
  /\ mode = "call"
  /\ fault = [at |-> "respond", exc |-> "KeyError"]
  /\ result = Raised("KeyError")

\* C6: with a provider configured whose classification answer is not valid
\* JSON, process_request raises nothing and returns exactly the keyword
\* strategy's decision for the message.
C6_BadJsonFallsBack ==
  pc = "router_done" /\ llm_provider # "none" /\ llm_response.k = "prose" =>
    /\ routing.status = "returned"
    /\ routing = SelectByScores(KeywordScores(user_message)[1],
                                KeywordScores(user_message)[2],
                                KeywordScores(user_message)[3])

\* invalid JSON for a message the keyword strategy routes to diet
C6_Witness ==
  /\ pc = "router_done"
  /\ llm_provider # "none"
  /\ llm_response.k = "prose"
  /\ routing.agent = "diet"

\* the classification outcomes the fallback is to cover: the call raising,
\* malformed JSON, JSON that is not an object, a missing or invalid agent, a
\* confidence that is not coercible to a number
FailedClassification(reply) ==
  \/ reply.k # "obj"
  \/ reply.agent \notin valid_agents
  \/ reply.conf.t \in { "badstr", "null", "list" }

\* C7: for every failed outcome of the classification call, process_request
\* raises nothing and returns the keyword strategy's decision.
C7_TotalFallback ==
  pc = "router_done" /\ llm_provider # "none" /\ FailedClassification(llm_response) =>
    /\ routing.status = "returned"
    /\ routing = route_with_keywords(user_message)

\* C8: every Routing Decision the classifier returns has an accepted agent
\* tag and a confidence within [0, 1].
C8_DecisionInRange ==
  pc = "router_done" /\ routing.status = "returned" =>
    /\ routing.agent \in valid_agents
    /\ 0 <= routing.confidence /\ routing.confidence <= 100

\* the decision the model's JSON object states
ModelDecision(reply) ==
  Decision(reply.agent,
           IF reply.conf.t = "absent" THEN 80 ELSE reply.conf.v,
           IF reply.reason = "absent" THEN "LLM routing" ELSE reply.reason)

\* C9 as stated: whenever the model's JSON object names an accepted agent, the
\* classifier returns the model's decision, whatever the keywords say.
C9_ModelDecisionWins ==
  /\ pc = "router_done"
  /\ llm_provider # "none"
  /\ llm_response.k = "obj"
  /\ llm_response.agent \in valid_agents
  => routing = ModelDecision(llm_response)

\* C9 amended: whenever the model's JSON object names an accepted agent and
\* its confidence is absent or coercible to a number (a number or a numeric
\* string), the classifier returns the model's agent, that confidence (0.8 if
\* absent) and the model's reason (the default if absent), whatever the keywords
\* say.
C9_ModelDecisionWinsWhenCoercible ==
  /\ pc = "router_done"
  /\ llm_provider # "none"
  /\ llm_response.k = "obj"
  /\ llm_response.agent \in valid_agents
  /\ llm_response.conf.t \in { "absent", "num", "numstr" }
  => routing = ModelDecision(llm_response)

\* the model says fitness without a confidence for a message whose keywords say diet
C9_Witness ==
  /\ pc = "router_done"
  /\ llm_provider # "none"
  /\ llm_response = Object("fitness", Absent, "absent")
  /\ route_with_keywords(user_message).agent = "diet"
  /\ routing = Decision("fitness", 80, "LLM routing")

\* C10: over every triple of scores the keyword strategy picks diet iff diet
\* strictly exceeds both others, otherwise fitness iff fitness strictly exceeds
\* both others, otherwise medical iff medical > 0, otherwise general; so general
\* needs medical = 0, and a diet/fitness tie with medical > 0 goes to medical.
C10_SelectionPolicy ==
  pc = "kw_done" =>
    LET d == scores[1]
        f == scores[2]
        m == scores[3]
        dietWins == d > f /\ d > m
        fitnessWins == f > d /\ f > m
    IN  /\ routing.status = "returned"
        /\ routing.agent = "diet" <=> dietWins
        /\ routing.agent = "fitness" <=> ~dietWins /\ fitnessWins
        /\ routing.agent = "medical" <=> ~dietWins /\ ~fitnessWins /\ m > 0
        /\ routing.agent = "general" <=> ~dietWins /\ ~fitnessWins /\ m = 0
        /\ d = f /\ m > 0 => routing.agent = "medical"

\* diet and fitness tie at 2, medical scores 1 and is picked
C10_Witness ==
  /\ pc = "kw_done"
  /\ scores = << 2, 2, 1 >>
  /\ routing.agent = "medical"

\* C11 as stated: equal positive diet and fitness scores with no medical
\* keyword route to diet.
C11_TieGoesToDiet ==
  pc = "kw_done" /\ scores[1] = scores[2] /\ scores[1] > 0 /\ scores[3] = 0 =>
    routing.agent = "diet"

\* C11 amended: equal positive diet and fitness scores with no medical keyword
\* route to general with confidence 0.8, since neither score strictly exceeds
\* the other.
C11_TieGoesToGeneral ==
  pc = "kw_done" /\ scores[1] = scores[2] /\ scores[1] > 0 /\ scores[3] = 0 =>
    routing = Decision("general", 80, "General conversation or greeting")

\* two diet keywords, two fitness keywords, no medical keyword
C11_Witness ==
  /\ pc = "kw_done"
  /\ scores = << 2, 2, 0 >>
  /\ routing.agent = "general"

\* the score of the category a keyword decision selected
SelectedScore(tag, s) ==
  CASE tag = "diet" -> s[1]
    [] tag = "fitness" -> s[2]
    [] tag = "medical" -> s[3]
    [] OTHER -> 0

\* every triple of scores within the bound
ScoreTriples == (0..MaxScore) \X (0..MaxScore) \X (0..MaxScore)

\* C12: the keyword confidence is min(60 + 10 s, 95) hundredths for the
\* selected category's own score s and 80 for general; it never exceeds 95 for
\* a category, and against any other triple selecting the same category with a
\* greater score it does not decrease, and increases while 60 + 10 s stays
\* below the cap.
C12_KeywordConfidence ==
  pc = "kw_done" =>
    LET s == SelectedScore(routing.agent, scores)
    IN  /\ routing.agent = "general" => routing.confidence = 80
        /\ routing.agent # "general" =>
              /\ routing.confidence = (IF 60 + 10 * s < 95 THEN 60 + 10 * s ELSE 95)
              /\ routing.confidence <= 95
              /\ \A t \in ScoreTriples :
                   LET other == SelectByScores(t[1], t[2], t[3])
                       u == SelectedScore(other.agent, t)
                   IN  other.agent = routing.agent /\ u > s =>
                         /\ other.confidence >= routing.confidence
                         /\ 60 + 10 * s < 95 => other.confidence > routing.confidence

\* a diet decision at the cap: score 4 gives 0.95, not 1.0
C12_Witness ==
  /\ pc = "kw_done"
  /\ scores = << 4, 0, 0 >>
  /\ routing = Decision("diet", 95, "Message contains diet/food-related keywords")

\* the number of places in the text at which some keyword of the list occurs,
\* each occurrence of each keyword counting
OccurrenceScore(keywords, text) ==
  Cardinality({ p \in (1..Len(keywords)) \X (0..Len(text)) :
                  /\ p[2] + Len(keywords[p[1]]) <= Len(text)
                  /\ \A j \in 1..Len(keywords[p[1]]) :
                       text[p[2] + j] = keywords[p[1]][j] })

\* C13: on the keyword path each category's score is the number of
\* case-insensitive occurrences of its keywords in the message, a keyword that
\* occurs k times counting k times, and the decision and its confidence follow
\* from those scores.
C13_ScoreCountsOccurrences ==
  pc = "router_done" /\ llm_provider = "none" =>
    LET lower == LowerStr(user_message)
        d == OccurrenceScore(diet_keywords, lower)
        f == OccurrenceScore(fitness_keywords, lower)
        m == OccurrenceScore(medical_keywords, lower)
    IN  /\ KeywordScores(user_message) = << d, f, m >>
        /\ routing = SelectByScores(d, f, m)

\* C14: without a provider, two classify calls with the same message return
\* the identical decision, whatever context accompanies each call and whatever
\* calls were made between them.
C14_DecisionDependsOnMessageOnly ==
  pc = "calls" /\ Len(decisions) = 2 /\ decisions[1].message = decisions[2].message =>
    /\ decisions[1].decision = decisions[2].decision
    /\ decisions[1].decision.status = "returned"

\* the same message classified with an empty context and with an override key
C14_Witness ==
  /\ pc = "calls"
  /\ Len(decisions) = 2
  /\ decisions[1].message = decisions[2].message
  /\ decisions[1].context.extra = "none"
  /\ decisions[2].context.extra = "agent_override"
  /\ decisions[2].decision.agent = "diet"
  /\ routing.agent = "fitness"
\* C15: every Agent Response process_message returns carries the classifier's
\* decision for the request under routing, its agent tag is the decision's
\* agent, and its text comes from the responder the decision names (the static
\* responder for general).
C15_ResponseCarriesDecision ==
  (mode = "call" /\ result.status = "returned") =>
    /\ routing = process_request(user_message, llm_provider, llm_response)
    /\ routing.status = "returned"
    /\ result.routing = routing
    /\ result.agent = routing.agent
    /\ result.response.src = AgentName(routing.agent)

C15_Witness ==
  /\ mode = "call"
  /\ result.status = "returned"
  /\ llm_response = Object("fitness", [t |-> "num", v |-> 90], "model reason")
  /\ result.agent = "fitness"
  /\ result.routing.reason = "model reason"
  /\ Contains(LowerStr(user_message), << "e", "a", "t" >>)
\* the positions in the log of provider calls made by the given callers
CallsBy(names) == { i \in 1..Len(calls) : calls[i].by \in names }

Specialists == { "DietAgent", "FitnessAgent", "MedicalAgent" }

\* C16: within one request the context fetch completes before classification,
\* classification completes before the responder is invoked, a provider call is
\* open only after the classification call has completed, there is at most one
\* classification call and at most one specialist call, and a failed specialist
\* call is not repeated.
C16_SequentialSteps ==
  /\ (routing.status # "none" \/ calls # <<>>) => user_context = "fetched"
  /\ ( \/ CallsBy(Specialists) # {}
       \/ agent # "none"
       \/ fragments # <<>>
       \/ result.status = "returned"
       \/ \E i \in 1..Len(events) : events[i].type \in { "content", "done" } )
     => routing.status = "returned"
  /\ Cardinality(CallsBy({ "RouterAgent" })) <= 1
  /\ Cardinality(CallsBy(Specialists)) <= 1
  /\ CallsBy({ "RouterAgent" }) \subseteq { 1 }
  /\ Len(calls) <= 2
  /\ backend.status = "open" =>
       /\ pc = "streaming"
       /\ CallsBy(Specialists) = { Len(calls) }
       /\ routing.status = "returned"
  /\ backend.status \in { "raised", "completion_raised" } =>
       Cardinality(CallsBy(Specialists)) = 1

C16_Witness ==
  /\ pc = "end"
  /\ mode = "call"
  /\ calls = << Call("RouterAgent", "chat_completion"),
                Call("DietAgent", "chat_completion") >>
  /\ llm_response = NonObject("raise")
  /\ backend.status = "completion_raised"
  /\ result.status = "returned"
\* C17: a non-streaming turn with a working Context Provider in which the
\* classification call, the specialist call or both raise still returns an
\* Agent Response: the routing is the keyword decision when the classification
\* call raised, and the response is the inline failure text of the specialist
\* when its call raised.
C17_ModelFailureStillAnswers ==
  ( /\ mode = "call"
    /\ pc = "end"
    /\ user_context = "fetched"
    /\ image_base64_list # "malformed"
    /\ llm_response = NonObject("raise") \/ backend.status = "completion_raised" )
  => /\ result.status = "returned"
     /\ fault = NoFault
     /\ llm_response = NonObject("raise") =>
          result.routing = route_with_keywords(user_message)
     /\ backend.status = "completion_raised" =>
          result.response = Text(AgentName(result.routing.agent), "call_failed", 0)
     /\ result.response # NoText

C17_Witness ==
  /\ mode = "call"
  /\ pc = "end"
  /\ llm_response = NonObject("raise")
  /\ backend.status = "completion_raised"
  /\ result.status = "returned"
  /\ result.agent = "fitness"
  /\ result.response = Text("FitnessAgent", "call_failed", 0)
\* C18: for each specialist and well-formed input, the content fragments of a
\* finished stream, concatenated, are the response text the non-streaming call
\* returns for the same Model Backend behaviour: the backend's tokens one by
\* one, a single fragment without a provider or with one that cannot stream,
\* and the same inline failure text when the backend fails.
C18_StreamRefinesCall ==
  ( /\ mode = "stream"
    /\ pc = "end"
    /\ routing.status = "returned"
    /\ routing.agent \in { "diet", "fitness", "medical" }
    /\ image_base64_list # "malformed" )
  => /\ fragments = ResponsePieces(routing.agent, llm_provider, backend)
     /\ llm_provider \in { "none", "nostream" } => Len(fragments) = 1
     /\ ContentEvents(fragments) = SelectSeq(events, LAMBDA e : e.type = "content")
\* the message, lower-cased, contains one of hello, hi, hey, 你好, 您好
HasGreeting(message) ==
  \E token \in { <<"h","e","l","l","o">>, <<"h","i">>, <<"h","e","y">>,
                  <<"u4f60","u597d">>, <<"u60a8","u597d">> } :
     Contains(LowerStr(message), token)

\* the response text of a finished request: the returned response, or the
\* content events of the stream
Answer ==
  IF mode = "call" THEN << result.response >>
  ELSE [i \in 1..Len(SelectSeq(events, LAMBDA e : e.type = "content")) |->
          SelectSeq(events, LAMBDA e : e.type = "content")[i].content]

\* C19: a general decision is answered without any specialist Model Backend
\* call, provider or not, by the welcome text iff the lower-cased message
\* contains a greeting token and by the help text otherwise; "Hello!" without a
\* provider is routed to general with confidence 0.8 and gets the welcome text.
C19_GeneralIsStatic ==
  /\ (routing.status = "returned" /\ routing.agent = "general") =>
       /\ CallsBy(Specialists) = {}
       /\ backend.status = "idle"
       /\ pc = "end" =>
            /\ fault = NoFault
            /\ HasGreeting(user_message) =>
                 Answer = << Text("general", "welcome", 0) >>
            /\ ~HasGreeting(user_message) =>
                 Answer = << Text("general", "help", 0) >>
  /\ ( /\ user_message = << "H", "e", "l", "l", "o", "!" >>
       /\ llm_provider = "none"
       /\ routing.status # "none" ) =>
       /\ routing.status = "returned"
       /\ routing.agent = "general"
       /\ routing.confidence = 80
       /\ pc = "end" => Answer = << Text("general", "welcome", 0) >>

C19_Witness ==
  /\ pc = "end"
  /\ mode = "call"
  /\ llm_provider = "none"
  /\ user_message = << "H", "e", "l", "l", "o", "!" >>
  /\ routing.agent = "general"
  /\ routing.confidence = 80
  /\ result.response = Text("general", "welcome", 0)
\* the events a general decision is to produce in streaming mode
GeneralEvents ==
  << RoutingEvent(routing),
     ContentEvent(IF HasGreeting(user_message) THEN Text("general", "welcome", 0)
                  ELSE Text("general", "help", 0)),
     DoneEvent >>

\* C20: in streaming mode a general decision produces exactly three events, in
\* this order: routing, one content event carrying the static responder's whole
\* response, done; the stream is finished exactly when all three are out.
C20_GeneralStream ==
  (mode = "stream" /\ routing.status = "returned" /\ routing.agent = "general") =>
    /\ Len(events) <= 3
    /\ events = SubSeq(GeneralEvents, 1, Len(events))
    /\ pc = "end" <=> Len(events) = 3

C20_Witness ==
  /\ mode = "stream"
  /\ pc = "end"
  /\ llm_provider # "none"
  /\ user_message = << "u4f60", "u597d" >>
  /\ events = << RoutingEvent(Decision("general", 90, "model reason")),
                 ContentEvent(Text("general", "welcome", 0)),
                 DoneEvent >>
\* what C21 asks of the context built and handed on
ContextOverlaid ==
  pc \in { "merge_route", "merge_respond", "merge_done" } =>
    LET supplied == IF additional_context.none THEN {}
                    ELSE DOMAIN additional_context.items
    IN  /\ ~request_context.none
        /\ DOMAIN request_context.items = { "user_history" } \cup supplied
        /\ \A k \in supplied :
             request_context.items[k] = additional_context.items[k]
        /\ "user_history" \notin supplied =>
             request_context.items["user_history"] = user_context
        /\ \A i \in 1..Len(handed) : handed[i].context = request_context
        /\ pc = "merge_done" =>
             /\ Len(handed) = 2
             /\ handed[1].to = "router"
             /\ handed[2].to = "responder"

\* C21: the context handed to the classifier and to the responder is the
\* fetched history under user_history overlaid with additional_context: every
\* key the caller supplies (user_history included) has the caller's value,
\* user_history has the fetched value otherwise, and no step of the request
\* changes the caller's additional_context.
C21_ContextOverlay ==
  /\ []ContextOverlaid
  /\ [][additional_context' = additional_context]_vars

C21_Witness ==
  /\ pc = "merge_done"
  /\ user_context = "history_a"
  /\ additional_context =
       Dict([k \in { "user_history", "image_base64_list" } |->
               IF k = "user_history" THEN "caller_b" ELSE "caller_a"])
  /\ handed[2] = Handed("responder", additional_context)
\* event_generator is suspended where a cancellation can reach it
Suspended == pc \in { "gen_yielded", "gen_pull", "gen_save" }

\* C22: once the client has disconnected, at whichever yield or await the
\* generator is suspended, no event is yielded by process_message_stream and no
\* frame (content, done or error) by event_generator, nothing is logged, the
\* only step left is the generators closing, and nothing runs after that.
C22_NothingAfterDisconnect ==
  /\ [](client = "disconnected" => Suspended \/ pc = "gen_closed")
  /\ [][client = "disconnected" =>
         /\ frames' = frames
         /\ events' = events
         /\ chat_log' = chat_log
         /\ pc' = "gen_closed"]_vars
  /\ [][pc # "gen_closed"]_vars

\* the client left after the first content frame, with more to come
C22_Witness ==
  /\ client = "disconnected"
  /\ pc = "gen_closed"
  /\ Len(events) = 2
  /\ frames = << Frame(events[1]), Frame(events[2]) >>
  /\ events[2].type = "content"

FrameTypes == { frames[i].data.type : i \in 1..Len(frames) }

\* C23: in the streaming endpoints the chat log is written only after the done
\* frame has been yielded, the done frame stays the last frame whatever the
\* write does, a failing write yields no error frame, and the generator then
\* finishes as usual.
C23_StreamLogBestEffort ==
  mode = "stream" =>
    /\ chat_log # <<>> =>
         /\ frames # <<>>
         /\ frames[Len(frames)] = Frame(DoneEvent)
         /\ "error" \notin FrameTypes
         /\ pc \in { "gen_pull", "gen_finished", "gen_closed" }
    /\ \A i \in 1..Len(frames) : frames[i].data.type = "done" => i = Len(frames)
    /\ (pc = "gen_finished" /\ "done" \in FrameTypes) => Len(chat_log) = 1

C23_Witness ==
  /\ mode = "stream"
  /\ sink = "raises"
  /\ pc = "gen_finished"
  /\ chat_log # <<>>
  /\ chat_log[1].outcome = "raised"
  /\ frames[Len(frames)] = Frame(DoneEvent)

\* C24: on the non-streaming path, when process_message has returned an Agent
\* Response and the chat log write then fails, the caller still receives that
\* response.
C24_CallLogBestEffort ==
  ( /\ mode = "call"
    /\ pc = "endpoint_done"
    /\ result.status = "returned"
    /\ chat_log # <<>>
    /\ chat_log[1].outcome # "True" )
  => http_response = [status |-> "returned", content |-> result.response]

\* the content of the content events yielded so far, in order
ContentsOf(evs) ==
  LET cs == SelectSeq(evs, LAMBDA e : e.type = "content")
  IN  [i \in 1..Len(cs) |-> cs[i].content]

\* C28: in the streaming endpoints the chat log is written at most once per
\* request, only when the last event received is done (so never after an error
\* event) and the client is still connected, and the assistant content written
\* is the content of all content events of the request, in order.
C28_StreamLogOnceAfterDone ==
  /\ [](mode = "stream" =>
         /\ Len(chat_log) <= 1
         /\ chat_log # <<>> =>
              /\ events[Len(events)] = DoneEvent
              /\ \A i \in 1..Len(events) : events[i].type # "error"
              /\ chat_log[1].content = ContentsOf(events)
              /\ chat_log[1].agent = events[1].agent)
  /\ [][(mode = "stream" /\ chat_log' # chat_log) =>
         /\ client = "connected"
         /\ client' = "connected"
         /\ events # <<>>
         /\ events[Len(events)] = DoneEvent
         /\ events' = events]_vars

C28_Witness ==
  /\ mode = "stream"
  /\ pc = "gen_finished"
  /\ chat_log = << LogCall(<< Token("DietAgent", 1), Token("DietAgent", 2) >>,
                           "diet", "ok") >>
\* the label the claim gives a figure: the two cutoffs, inclusive
Label(v, good, excellent) ==
  IF v >= excellent THEN "excellent"
  ELSE IF good <= v /\ v < excellent THEN "good"
  ELSE "needs_improvement"

\* C25: without a Model Backend the fitness fallback labels steps excellent iff
\* steps >= 10000, good iff 8000 <= steps < 10000 and needs-improvement
\* otherwise, active energy likewise with 500 and 400, an absent figure
\* counting as 0; the response text shows both labels, so 12000 steps with 550
\* of active energy show excellent twice.
C25_FitnessCutoffs ==
  pc = "fitness_done" =>
    LET steps == IF health_data.steps.has THEN health_data.steps.v ELSE 0
        energy == IF health_data.active_energy.has THEN health_data.active_energy.v
                  ELSE 0
    IN  /\ analysis.steps_status = Label(steps, 8000, 10000)
        /\ analysis.energy_status = Label(energy, 400, 500)
        /\ fitness_response[1] = Line("steps", steps, Label(steps, 8000, 10000))
        /\ fitness_response[2] = Line("active_energy", energy, Label(energy, 400, 500))
        /\ (steps = 12000 /\ energy = 550) =>
             /\ fitness_response[1].status = "excellent"
             /\ fitness_response[2].status = "excellent"

C25_Witness ==
  /\ pc = "fitness_done"
  /\ health_data = [steps |-> Figure(12000), active_energy |-> Figure(550),
                    exercise_minutes |-> Figure(45)]
  /\ fitness_response[1] = Line("steps", 12000, "excellent")
  /\ fitness_response[2] = Line("active_energy", 550, "excellent")
\* C26: a message built by LLMMessage.multimodal from n image entries (URLs
\* and base64 entries) and a text, empty or not, has n + 1 content blocks: the
\* image blocks of the URLs in input order, then those of the base64 entries in
\* input order, then the one text block.
C26_MultimodalShape ==
  (pc = "mm_done" /\ llm_message.status = "built") =>
    LET urls == IF image_urls.none THEN <<>> ELSE image_urls.items
        imgs == IF image_base64_entries.none THEN <<>> ELSE image_base64_entries.items
        n == Len(urls) + Len(imgs)
        content == llm_message.content
    IN  /\ Len(content) = n + 1
        /\ \A i \in 1..n : content[i].type = "image_url"
        /\ \A i \in 1..Len(urls) : content[i].url = << urls[i] >>
        /\ \A j \in 1..Len(imgs) :
             content[Len(urls) + j].url =
               << "data:", imgs[j].media_type, ";base64,", imgs[j].data >>
        /\ content[n + 1] = [type |-> "text", url |-> <<>>, text |-> message_text]

\* one URL, one base64 entry and the empty text
C26_Witness ==
  /\ pc = "mm_done"
  /\ message_text = ""
  /\ llm_message.status = "built"
  /\ Len(llm_message.content) = 3
  /\ llm_message.content[1].url = << "https://example.com/img.jpg" >>
  /\ llm_message.content[2].url = << "data:", "image/jpeg", ";base64,", "abc123" >>
  /\ llm_message.content[3] = TextBlock("")
\* C27 as stated: every call_llm makes exactly one provider call, responses
\* when the api mode is "responses" and the provider has the capability,
\* chat completion in every other combination.
C27_ExactlyOneCall ==
  pc = "llm_done" =>
    /\ Len(calls) = 1
    /\ calls[1].api = "responses" <=> (api_mode = "responses" /\ has_responses)
    /\ calls[1].api = "chat_completion" <=> ~(api_mode = "responses" /\ has_responses)

\* C27, amended: a call_llm that has a provider and whose messages convert
\* makes exactly one provider call, responses when the api mode is "responses"
\* and the provider has the capability, chat completion in every other
\* combination; without a provider, or when the conversion raises, it makes none.
C27_OneCallWithProvider ==
  pc = "llm_done" =>
    /\ (llm_provider # "none" /\ llm_text.status = "returned") =>
         /\ Len(calls) = 1
         /\ calls[1].by = AgentName(agent)
         /\ calls[1].api = "responses" <=> (api_mode = "responses" /\ has_responses)
         /\ calls[1].api = "chat_completion" <=>
              ~(api_mode = "responses" /\ has_responses)
    /\ llm_provider = "none" =>
         /\ calls = <<>>
         /\ llm_text = [status |-> "returned",
                        text |-> Text(AgentName(agent), "not_configured", 0)]
    /\ llm_text.status = "raised" => calls = <<>>

\* the api mode asks for responses, the provider lacks it, chat completion is called
C27_Witness ==
  /\ pc = "llm_done"
  /\ api_mode = "responses"
  /\ ~has_responses
  /\ llm_provider # "none"
  /\ calls = << Call("DietAgent", "chat_completion") >>
  /\ llm_text.status = "returned"

\* C29: a delivery with a non-empty event_id reaches process_message at most
\* once, also after the processed set has been trimmed, and two deliveries of
\* one event_id are never both past the check at the same time.
C29_AtMostOncePerEvent ==
  /\ invocations <= 1
  /\ \A s, t \in HandlerSlots :
       (/\ s # t
        /\ handlers[s].stage = "processing"
        /\ handlers[t].stage = "processing"
        /\ handlers[s].event_id # 0)
       => handlers[s].event_id # handlers[t].event_id

\* the insertion a handler past `await request.json()` is about to make
Inserted(before, after) ==
  \E s \in HandlerSlots :
     LET with == before \cup { handlers[s].event_id }
     IN  /\ handlers[s].stage = "received"
         /\ handlers[s].event_id # 0
         /\ after \subseteq with
         /\ Cardinality(with) <= MAX_PROCESSED_EVENTS => after = with
         /\ Cardinality(with) = MAX_PROCESSED_EVENTS + 1
              => Cardinality(after) = MAX_PROCESSED_EVENTS \div 2

\* C30: the processed set never holds more entries than the cap; the
\* insertion that brings it to one more than the cap leaves exactly half the
\* cap, and a trim only removes entries: the set changes only by one insertion
\* followed by removals.
C30_ProcessedSetBounded ==
  /\ [](Cardinality(processed_events) <= MAX_PROCESSED_EVENTS)
  /\ [][processed_events' # processed_events
          => Inserted(processed_events, processed_events')]_vars

\* a trim has happened: the set is at half the cap while a handler is past the
\* check with an id the trim has removed again
C30_Witness ==
  /\ Cardinality(processed_events) = MAX_PROCESSED_EVENTS \div 2
  /\ \E s \in HandlerSlots :
       /\ handlers[s].stage = "processing"
       /\ handlers[s].event_id # 0
       /\ handlers[s].event_id \notin processed_events

====
